---- MODULE Spec2Model ----
(***************************************************************************)
(* A model of vega's feature client (feature_client.go): the pipe endpoint *)
(* (pipeConn.Read / Write / Close), the pipe handshake (ListenPipe /       *)
(* ConnectPipe), the Receiver pump, the HandleRequests loop, LocalQueue   *)
(* and Request.  The mailbox transport (Client: Push, Poll, LongPoll, Ack,  *)
(* Abandon, EphemeralDeclare, RandomQueue) is not part of feature_client.go*)
(* and is modelled from the transport contract: named FIFO mailboxes, a    *)
(* poll takes the head of the mailbox, every call may fail.                *)
(***************************************************************************)
EXTENDS Integers, Sequences, FiniteSets, TLC

\* ------------------------------------------------------------------ bounds
MaxWrites == 2      \* Write calls per endpoint
MaxFrame == 2       \* longest body of one Write
MaxDst == 3         \* longest destination of one Read
MaxConn == 2        \* ConnectPipe calls on the one pipe name
MaxList == 2        \* ListenPipe calls on the one pipe name
MaxMsgs == 2        \* messages pushed to the queue a Receiver reads
MaxReqs == 3        \* requests pushed to the queue HandleRequests serves
MaxCallers == 3     \* goroutines calling LocalQueue on one FeatureClient
MaxCalls == 2       \* LocalQueue calls of one goroutine
MaxRequests == 6    \* Request calls the one client makes, one after another

VARIABLES
    \* ---- pipe endpoints (pipeConn) and their two mailboxes
    mbox,           \* mbox[e]: the messages queued in e's ownM, oldest first
    gone,           \* gone[e]: e's ownM was abandoned at the broker
    closed,         \* pipeConn.closed
    abandon,        \* pipeConn.abandon
    buffer,         \* pipeConn.buffer (Nil when the code holds nil)
    nWritten,       \* bytes e has written with success: the bytes 1..nWritten[e]
    nWrites,        \* Write calls made on e
    received,       \* the bytes e's Reads returned, in order
    lastRead,       \* what e's latest Read call did and returned
    abandonCalls,   \* Abandon(ownM) calls made by e's Close
    closePushes,    \* Push(pairM, pipe/close) calls made by e's Close
    lastClose,      \* what e's latest Close call did and returned
    writtenAtClose, \* nWritten[e] when e pushed its pipe/close, -1 before
    closeTaken,     \* closeTaken[e]: a poll of e took the peer's pipe/close
    closedWrite,    \* what e's latest Write on a closed endpoint did and returned
    pipeFaulted     \* a transport fault was injected into a call of the pipe

pipeVars == << mbox, gone, closed, abandon, buffer, nWritten, nWrites,
               received, lastRead, abandonCalls, closePushes, lastClose,
               writtenAtClose, closeTaken, closedWrite, pipeFaulted >>

VARIABLES
    \* ---- pipe handshake (ConnectPipe / ListenPipe) and the broker's queues
    hsBox,          \* hsBox[q]: the messages queued in q, oldest first
    hsExists,       \* hsExists[q]: q is declared at the broker and not abandoned
    declareCalled,  \* declareCalled[q]: EphemeralDeclare(q) was called
    abandonCalled,  \* abandonCalled[q]: Abandon(q) was called
    cPc,            \* cPc[c]: where ConnectPipe call c stands
    cPushed,        \* cPushed[c]: c's pipe/initconnect was pushed
    cPolling,       \* cPolling[c]: c has issued a LongPoll of its ownM
    cRes,           \* cRes[c]: what ConnectPipe call c returned
    cPair,          \* cPair[c]: pairM of the endpoint c returned
    lPc,            \* lPc[l]: where ListenPipe call l stands
    lFrom,          \* lFrom[l]: ReplyTo of the delivery l took
    lRes,           \* lRes[l]: what ListenPipe call l returned
    lPair,          \* lPair[l]: pairM of the endpoint l returned
    strayed,        \* a wrongly typed message was pushed to the rendezvous
    declareFailed,  \* declareFailed[q]: EphemeralDeclare(q) returned an error
    lTook,          \* lTook[l]: Type of the delivery l took, and how its Ack went
    cNil,           \* a LongPoll of some connector returned nil (window expired)
    hsFaulted       \* a transport fault was injected into a call of the handshake

hsVars == << hsBox, hsExists, declareCalled, abandonCalled, cPc, cPushed,
             cPolling, cRes, cPair, lPc, lFrom, lRes, lPair, strayed,
             declareFailed, lTook, cNil, hsFaulted >>

VARIABLES
    \* ---- Receiver: the pump goroutine of Receive, its caller and the queue
    rq,             \* the messages waiting in the queue at the broker
    rPushed,        \* messages pushed to the queue so far
    pumpPc,         \* where the pump goroutine stands
    pumpMsg,        \* the delivery the pump holds, 0 when none
    shutdown,       \* rec.shutdown is closed (Close was called)
    chanClosed,     \* the Receiver's channel c is closed
    receiving,      \* the consumer is (still) receiving from the channel
    delivered,      \* the deliveries the consumer received from the channel
    taken,          \* the messages the pump took from the broker
    pushedAtClose,  \* rPushed when Close was called, -1 before
    recError,       \* rec.Error
    closedBy,       \* why the pump closed the channel: "shutdown" or "error"
    recFaulted      \* a transport fault was injected into a LongPoll of the pump

recVars == << rq, rPushed, pumpPc, pumpMsg, shutdown, chanClosed, receiving,
              delivered, taken, pushedAtClose, recError, closedBy, recFaulted >>

VARIABLES
    \* ---- HandleRequests: the loop, the queue it serves and the replies
    svcQ,           \* the requests waiting in the queue, oldest first
    reqPushed,      \* requests pushed so far
    hPc,            \* where the loop stands
    hDel,           \* the delivery the loop holds, 0 when none
    nPolled,        \* deliveries the loop's LongPoll returned
    nHandled,       \* times the handler returned
    nAcked,         \* times the loop called Ack
    nReplied,       \* times the loop pushed a reply
    replies,        \* the replies that reached the reply queues, in order
    hRet,           \* what HandleRequests returned, "none" while it runs
    hPollErr,       \* a LongPoll of the loop returned an error
    hFail,          \* the Ack or reply Push that failed, and nPolled at that time
    hFaulted        \* a transport fault was injected into a call of the loop

hrVars == << svcQ, reqPushed, hPc, hDel, nPolled, nHandled, nAcked, nReplied,
             replies, hRet, hPollErr, hFail, hFaulted >>

VARIABLES
    \* ---- LocalQueue: one FeatureClient and the goroutines calling it
    localQueue,     \* fc.localQueue, NoName for ""
    lock,           \* the goroutine holding fc.lock, 0 when it is free
    lqPc,           \* lqPc[k]: where goroutine k's call stands
    lqR,            \* lqR[k]: the call's local r
    lqCalls,        \* lqCalls[k]: calls goroutine k has begun
    lqLast,         \* lqLast[k]: what k's latest finished call returned
    randomNext,     \* names RandomQueue has handed out
    declared,       \* declared[n]: EphemeralDeclare(n) calls
    lqReturned,     \* the names LocalQueue calls returned
    lqAssigned,     \* the values assigned to fc.localQueue
    lqFaulted       \* a transport fault was injected into an EphemeralDeclare

lqVars == << localQueue, lock, lqPc, lqR, lqCalls, lqLast, randomNext,
             declared, lqReturned, lqAssigned, lqFaulted >>

VARIABLES
    \* ---- Request: one client calling Request serially, and the served queue
    reqBox,         \* the requests waiting in the served queue, oldest first
    replyBox,       \* the replies waiting in the client's LocalQueue mailbox
    reqPc,          \* where the client's current Request call stands
    reqCall,        \* the number of the current (or latest) Request call
    reqResult,      \* reqResult[k]: what the k-th Request call returned
    reqFaulted      \* a transport fault was injected into a call of Request

rrVars == << reqBox, replyBox, reqPc, reqCall, reqResult, reqFaulted >>

vars == << pipeVars, hsVars, recVars, hrVars, lqVars, rrVars >>

\* Each part of the client is run on its own: a step of one part leaves the
\* state of the others alone.
PipeOnly == UNCHANGED << hsVars, recVars, hrVars, lqVars, rrVars >>
HandshakeOnly == UNCHANGED << pipeVars, recVars, hrVars, lqVars, rrVars >>
ReceiverOnly == UNCHANGED << pipeVars, hsVars, hrVars, lqVars, rrVars >>
HandlerOnly == UNCHANGED << pipeVars, hsVars, recVars, lqVars, rrVars >>
LocalQueueOnly == UNCHANGED << pipeVars, hsVars, recVars, hrVars, rrVars >>
RequestOnly == UNCHANGED << pipeVars, hsVars, recVars, hrVars, lqVars >>

\* ------------------------------------------------------------- helpers
Min(a, b) == IF a < b THEN a ELSE b

\* s[from..] of a Go slice, 0-based from
Drop(s, k) == SubSeq(s, k + 1, Len(s))

\* s[:k]
Take(s, k) == SubSeq(s, 1, k)

IsPrefix(s, t) == Len(s) <= Len(t) /\ Take(t, Len(s)) = s

\* the bytes from+1 .. from+len: every byte written on a direction is distinct,
\* so a lost, repeated or reordered byte shows in the reader's sequence
Bytes(from, len) == [i \in 1..len |-> from + i]

\* ------------------------------------------------------------- transport
\* A transport call comes out well ("ok", "msg", "nil" or "empty"), fails
\* because the queue does not exist at the broker ("err"), or fails by a fault
\* of the connection ("fault"). A run suffers at most one such fault.
Inject(faulted) == IF faulted THEN {} ELSE {"fault"}
Failed(o) == o \in {"err", "fault"}

\* Push(q, m)
PushOutcomes(exists, faulted) ==
    IF exists THEN {"ok"} \cup Inject(faulted) ELSE {"err"}

\* Poll(q), non-blocking: an error, nothing (nil, nil), or the oldest message
PollOutcomes(exists, box, faulted) ==
    IF ~exists THEN {"err"}
    ELSE Inject(faulted) \cup (IF box = << >> THEN {"empty"} ELSE {"msg"})

\* LongPoll(q, 1 minute): an error, nil when the window ends with the queue
\* empty, or the oldest message
LongPollOutcomes(exists, box, faulted) ==
    IF ~exists THEN {"err"}
    ELSE Inject(faulted) \cup (IF box = << >> THEN {"nil"} ELSE {"msg"})

\* delivery.Ack(), Declare(q), EphemeralDeclare(q), Abandon(q)
CallOutcomes(faulted) == {"ok"} \cup Inject(faulted)

\* ------------------------------------------------------------- pipeConn
Endpoints == {"c", "l"}

\* pairM of an endpoint is the ownM of the other one
Peer(e) == IF e = "c" THEN "l" ELSE "c"

Nil == << >>

DataFrame(body) == [Type |-> "", Body |-> body]
CloseFrame == [Type |-> "pipe/close", Body |-> << >>]

\* lastRead: the case Read took (via), the residual bytes it found (had), what
\* its poll gave (poll) and its Ack (ack), the count and error it returned,
\* whether the Read call before it took a pipe/close in its top-up poll (after),
\* whether closed was set when the call began (wasClosed) and whether the count
\* is larger than len(b) (over)
NoRead == [via |-> "none", had |-> 0, poll |-> "none", ack |-> "none",
           n |-> 0, err |-> "nil", after |-> "none", wasClosed |-> FALSE,
           over |-> FALSE]
\* closedWrite before any Write on a closed endpoint
NoWrite == [n |-> 0, err |-> "none", pushed |-> FALSE]
\* lastClose: whether the call found abandon unset (call), the transport calls
\* it made (ops) and the error it returned
NoClose == [call |-> "none", ops |-> 0, err |-> "nil"]

InitPipe ==
    /\ mbox = [e \in Endpoints |-> << >>]
    /\ gone = [e \in Endpoints |-> FALSE]
    /\ closed = [e \in Endpoints |-> FALSE]
    /\ abandon = [e \in Endpoints |-> FALSE]
    /\ buffer = [e \in Endpoints |-> Nil]
    /\ nWritten = [e \in Endpoints |-> 0]
    /\ nWrites = [e \in Endpoints |-> 0]
    /\ received = [e \in Endpoints |-> << >>]
    /\ lastRead = [e \in Endpoints |-> NoRead]
    /\ abandonCalls = [e \in Endpoints |-> 0]
    /\ closePushes = [e \in Endpoints |-> 0]
    /\ lastClose = [e \in Endpoints |-> NoClose]
    /\ writtenAtClose = [e \in Endpoints |-> -1]
    /\ closeTaken = [e \in Endpoints |-> FALSE]
    /\ closedWrite = [e \in Endpoints |-> NoWrite]
    /\ pipeFaulted = FALSE

\* The short / exact / long copy of a frame (or of the residual buffer) into a
\* destination of bn bytes: what is copied out, and what stays as the residual.
CopyRule(src, bn) ==
    IF bn < Len(src)
    THEN [out |-> Take(src, bn), rest |-> Drop(src, bn)]
    ELSE [out |-> src, rest |-> Nil]

\* Read's top-up poll took a pipe/close: the residual bytes are returned without
\* an error and the endpoint is marked closed.
TopUpCloseUnmarked(buf) ==
    [via |-> "C", out |-> buf, err |-> "nil", closed |-> FALSE, buffer |-> Nil]

TopUpClose(buf) ==
    [via |-> "C", out |-> buf, err |-> "nil", closed |-> TRUE, buffer |-> Nil]

\* Which poll a Read of bn bytes on e makes, and how it can come out. The
\* long-poll loop of lines 281-289 polls again on nil, so it leaves the loop
\* with an error or a delivery.
ReadPolls(e, bn) ==
    IF closed[e] THEN {"none"}
    ELSE IF buffer[e] # Nil
         THEN IF bn > Len(buffer[e])
              THEN PollOutcomes(~gone[e], mbox[e], pipeFaulted)
              ELSE {"none"}
         ELSE LongPollOutcomes(~gone[e], mbox[e], pipeFaulted) \ {"nil"}

\* pipeConn.Read(b) with len(b) = bn, its poll coming out as po and the Ack of
\* the delivery (when there is one) as ao: the bytes returned, the error, and
\* the endpoint's fields afterwards.
ReadResult(e, bn, po, ao) ==
    LET buf == buffer[e]
        n == Len(buf)
        msg == Head(mbox[e])
    IN
    IF closed[e]
    THEN [via |-> "closed", out |-> << >>, err |-> "EOF",
          closed |-> TRUE, buffer |-> buf]
    ELSE IF buf # Nil
    THEN IF bn < n
         THEN [via |-> "A", out |-> Take(buf, bn), err |-> "nil",
               closed |-> FALSE, buffer |-> Drop(buf, bn)]
         ELSE IF bn > n
         THEN IF Failed(po)
              THEN [via |-> "C", out |-> buf, err |-> "nil",
                    closed |-> FALSE, buffer |-> Nil]
              ELSE IF po = "empty"
              \* resp is nil and err is nil: resp.Ack() dereferences nil
              THEN [via |-> "C", out |-> << >>, err |-> "panic",
                    closed |-> FALSE, buffer |-> Nil]
              ELSE IF Failed(ao)
              THEN [via |-> "C", out |-> buf, err |-> "nil",
                    closed |-> FALSE, buffer |-> Nil]
              ELSE IF msg.Type = "pipe/close"
              THEN TopUpClose(buf)
              ELSE LET cp == CopyRule(msg.Body, bn - n)
                   IN [via |-> "C", out |-> buf \o cp.out, err |-> "nil",
                       closed |-> FALSE, buffer |-> cp.rest]
         ELSE [via |-> "B", out |-> buf, err |-> "nil",
               closed |-> FALSE, buffer |-> Nil]
    ELSE IF Failed(po)
         THEN [via |-> "D", out |-> << >>, err |-> "err",
               closed |-> FALSE, buffer |-> Nil]
         ELSE IF Failed(ao)
         THEN [via |-> "D", out |-> << >>, err |-> "err",
               closed |-> FALSE, buffer |-> Nil]
         ELSE IF msg.Type = "pipe/close"
         THEN [via |-> "D", out |-> << >>, err |-> "EOF",
               closed |-> TRUE, buffer |-> Nil]
         ELSE LET cp == CopyRule(msg.Body, bn)
              IN [via |-> "D", out |-> cp.out, err |-> "nil",
                  closed |-> FALSE, buffer |-> cp.rest]

\* One Read call on endpoint e with a destination of bn bytes.
PipeRead(e, bn) ==
    \E po \in ReadPolls(e, bn) :
    \E ao \in (IF po # "msg" THEN {"none"}
               ELSE CallOutcomes(pipeFaulted)) :
       LET r == ReadResult(e, bn, po, ao)
           kind == IF Failed(po) THEN "err"
                   ELSE IF po # "msg" THEN po
                   ELSE IF Head(mbox[e]).Type = "pipe/close" THEN "close"
                   ELSE "data"
       IN /\ mbox' = IF po = "msg" THEN [mbox EXCEPT ![e] = Tail(@)] ELSE mbox
          /\ closed' = [closed EXCEPT ![e] = r.closed]
          /\ buffer' = [buffer EXCEPT ![e] = r.buffer]
          /\ received' = [received EXCEPT ![e] = @ \o r.out]
          /\ lastRead' = [lastRead EXCEPT ![e] =
                 [via |-> r.via, had |-> Len(buffer[e]), poll |-> kind,
                  ack |-> IF Failed(ao) THEN "err" ELSE ao,
                  n |-> Len(r.out), err |-> r.err,
                  after |-> IF lastRead[e].via = "C" /\ lastRead[e].poll = "close"
                            THEN lastRead[e].ack ELSE "none",
                  wasClosed |-> closed[e],
                  over |-> Len(r.out) > bn]]
          /\ closeTaken' = [closeTaken EXCEPT ![e] = @ \/ kind = "close"]
          /\ pipeFaulted' = (pipeFaulted \/ po = "fault" \/ ao = "fault")
          /\ UNCHANGED << gone, abandon, nWritten, nWrites, abandonCalls,
                          closePushes, lastClose, writtenAtClose, closedWrite >>

\* Write with no test of closed
WriteUnguarded(e) == FALSE

\* lines 318-320: Write returns 0 and end-of-stream when closed is set
WriteGuard(e) == closed[e]

\* One Write call on endpoint e with a body of len bytes. (nWrites counts the
\* calls that go to the transport; a call that ends at the closed test changes
\* nothing and needs no bound.)
PipeWrite(e, len) ==
    /\ IF WriteGuard(e)
       THEN /\ closedWrite' = [closedWrite EXCEPT ![e] =
                                  [n |-> 0, err |-> "EOF", pushed |-> FALSE]]
            /\ UNCHANGED << mbox, nWritten, nWrites, pipeFaulted >>
       ELSE /\ nWrites[e] < MaxWrites
            /\ nWrites' = [nWrites EXCEPT ![e] = @ + 1]
            /\ \E o \in PushOutcomes(~gone[Peer(e)], pipeFaulted) :
                  /\ pipeFaulted' = (pipeFaulted \/ o = "fault")
                  /\ closedWrite' =
                         IF closed[e]
                         THEN [closedWrite EXCEPT ![e] =
                                  [n |-> IF o = "ok" THEN len ELSE 0,
                                   err |-> IF o = "ok" THEN "nil" ELSE "err",
                                   pushed |-> o = "ok"]]
                         ELSE closedWrite
                  /\ IF o = "ok"
                     THEN /\ mbox' = [mbox EXCEPT ![Peer(e)] =
                                Append(@, DataFrame(Bytes(nWritten[e], len)))]
                          /\ nWritten' = [nWritten EXCEPT ![e] = @ + len]
                     ELSE UNCHANGED << mbox, nWritten >>
    /\ UNCHANGED << gone, closed, abandon, buffer, received, lastRead,
                    abandonCalls, closePushes, lastClose, writtenAtClose,
                    closeTaken >>

\* The body of Close past its guard: set abandon, Abandon(ownM) with its error
\* dropped, push pipe/close to pairM and return the push's error.
CloseBody(e) ==
    /\ abandon' = [abandon EXCEPT ![e] = TRUE]
    /\ abandonCalls' = [abandonCalls EXCEPT ![e] = @ + 1]
    /\ closePushes' = [closePushes EXCEPT ![e] = @ + 1]
    /\ \E ab \in CallOutcomes(pipeFaulted) :
       \E o \in PushOutcomes(~gone[Peer(e)], pipeFaulted \/ ab = "fault") :
          \* a failed Abandon leaves the mailbox at the broker
          /\ gone' = IF ab = "ok" THEN [gone EXCEPT ![e] = TRUE] ELSE gone
          /\ mbox' = [q \in Endpoints |->
                        IF q = e /\ ab = "ok" THEN << >>
                        ELSE IF q = Peer(e) /\ o = "ok"
                             THEN Append(mbox[q], CloseFrame)
                             ELSE mbox[q]]
          /\ writtenAtClose' = IF o = "ok"
                               THEN [writtenAtClose EXCEPT ![e] = nWritten[e]]
                               ELSE writtenAtClose
          /\ lastClose' = [lastClose EXCEPT ![e] =
                              [call |-> "first", ops |-> 2,
                               err |-> IF o = "ok" THEN "nil" ELSE "err"]]
          /\ pipeFaulted' = (pipeFaulted \/ ab = "fault" \/ o = "fault")

CloseUnguarded(e) == CloseBody(e)

\* pipeConn.Close: a no-op once abandon is set.
CloseGuarded(e) ==
    IF abandon[e]
    THEN /\ lastClose' = [lastClose EXCEPT ![e] =
                            [call |-> "later", ops |-> 0, err |-> "nil"]]
         /\ UNCHANGED << abandon, abandonCalls, closePushes, gone, mbox,
                         writtenAtClose, pipeFaulted >>
    ELSE CloseBody(e)

\* One Close call on endpoint e.
PipeClose(e) ==
    /\ CloseGuarded(e)
    /\ UNCHANGED << closed, buffer, nWritten, nWrites, received, lastRead,
                    closeTaken, closedWrite >>

\* The calls the pipe's two users make: the connector's side writes, the
\* listener's side reads, and either side closes, at any time and in any order;
\* the listener's side writes too once it has met end-of-stream.
Writers == {"c"}
Readers == {"l"}

NextPipe ==
    \/ \E e \in Readers, bn \in 0..MaxDst : PipeRead(e, bn) /\ PipeOnly
    \/ \E e \in Writers, len \in 0..MaxFrame : PipeWrite(e, len) /\ PipeOnly
    \/ \E e \in Readers, len \in 0..MaxFrame :
          closed[e] /\ PipeWrite(e, len) /\ PipeOnly
    \/ \E e \in Endpoints : PipeClose(e) /\ PipeOnly

\* ------------------------------------------------ ConnectPipe / ListenPipe
Conns == 1..MaxConn
Lists == 1..MaxList

\* RandomQueue(): a name no other call gets. The call's own identity serves.
ConnName(c) == << "c", c >>
ListName(l) == << "l", l >>
Names == {ConnName(c) : c \in Conns} \cup {ListName(l) : l \in Lists}

\* "pipe:" + name, the rendezvous queue
Rendezvous == << "pipe", 0 >>
\* the empty ReplyTo
NoQueue == << "", 0 >>
Queues == Names \cup {Rendezvous, NoQueue}

InitConnect(own) == [Type |-> "pipe/initconnect", ReplyTo |-> own]
Setup(own) == [Type |-> "pipe/setup", ReplyTo |-> own]
Bogus == [Type |-> "bogus", ReplyTo |-> NoQueue]

\* lTook before the listener has taken a delivery
NoDelivery == [Type |-> "none", ack |-> "none"]

InitHandshake ==
    /\ hsBox = [q \in Queues |-> << >>]
    /\ hsExists = [q \in Queues |-> FALSE]
    /\ declareCalled = [q \in Queues |-> FALSE]
    /\ abandonCalled = [q \in Queues |-> FALSE]
    /\ cPc = [c \in Conns |-> "start"]
    /\ cPushed = [c \in Conns |-> FALSE]
    /\ cPolling = [c \in Conns |-> FALSE]
    /\ cRes = [c \in Conns |-> "none"]
    /\ cPair = [c \in Conns |-> NoQueue]
    /\ lPc = [l \in Lists |-> "start"]
    /\ lFrom = [l \in Lists |-> NoQueue]
    /\ lRes = [l \in Lists |-> "none"]
    /\ lPair = [l \in Lists |-> NoQueue]
    /\ strayed = FALSE
    /\ declareFailed = [q \in Queues |-> FALSE]
    /\ lTook = [l \in Lists |-> NoDelivery]
    /\ cNil = FALSE
    /\ hsFaulted = FALSE

Count(o) == hsFaulted' = (hsFaulted \/ o = "fault")

HsDeclareOutcomes == CallOutcomes(hsFaulted)
HsPushOutcomes(q) == PushOutcomes(hsExists[q], hsFaulted)
HsLongPollOutcomes(q) == LongPollOutcomes(hsExists[q], hsBox[q], hsFaulted)
HsAckOutcomes == CallOutcomes(hsFaulted)

\* Abandon(q): the queue and what it holds are dropped
Abandoned(exists, q) == [exists EXCEPT ![q] = FALSE]

\* ConnectPipe without its EphemeralDeclare: nothing is declared before the push.
ConnectDeclareSkipped(c) ==
    /\ cPc[c] = "start"
    /\ cPc' = [cPc EXCEPT ![c] = "push"]
    /\ UNCHANGED << hsBox, hsExists, declareCalled, abandonCalled, cPushed,
                    cPolling, cRes, cPair, lPc, lFrom, lRes, lPair, strayed,
                    declareFailed, lTook, cNil, hsFaulted >>

\* ConnectPipe, lines 394-395: ownM := RandomQueue(); EphemeralDeclare(ownM),
\* its error dropped.
ConnectDeclare(c) ==
    /\ cPc[c] = "start"
    /\ \E o \in HsDeclareOutcomes :
          /\ Count(o)
          /\ hsExists' = [hsExists EXCEPT ![ConnName(c)] = (o = "ok")]
          /\ declareFailed' = [declareFailed EXCEPT ![ConnName(c)] = Failed(o)]
    /\ declareCalled' = [declareCalled EXCEPT ![ConnName(c)] = TRUE]
    /\ cPc' = [cPc EXCEPT ![c] = "push"]
    /\ UNCHANGED << hsBox, abandonCalled, cPushed, cPolling, cRes, cPair,
                    lPc, lFrom, lRes, lPair, strayed, lTook, cNil >>

\* ConnectPipe, lines 397-408: push pipe/initconnect to the rendezvous queue;
\* on an error abandon ownM and return the error.
ConnectPush(c) ==
    /\ cPc[c] = "push"
    /\ \E o \in HsPushOutcomes(Rendezvous) :
          /\ Count(o)
          /\ IF Failed(o)
             THEN /\ hsExists' = Abandoned(hsExists, ConnName(c))
                  /\ abandonCalled' = [abandonCalled EXCEPT ![ConnName(c)] = TRUE]
                  /\ cRes' = [cRes EXCEPT ![c] = "err"]
                  /\ cPc' = [cPc EXCEPT ![c] = "done"]
                  /\ UNCHANGED << hsBox, cPushed >>
             ELSE /\ hsBox' = [hsBox EXCEPT ![Rendezvous] =
                                   Append(@, InitConnect(ConnName(c)))]
                  /\ cPushed' = [cPushed EXCEPT ![c] = TRUE]
                  /\ cPc' = [cPc EXCEPT ![c] = "poll"]
                  /\ UNCHANGED << hsExists, abandonCalled, cRes >>
    /\ UNCHANGED << declareCalled, cPolling, cPair, lPc, lFrom, lRes, lPair,
                    strayed, declareFailed, lTook, cNil >>

\* ConnectPipe, line 411: the LongPoll of ownM is issued.
ConnectPollStart(c) ==
    /\ cPc[c] = "poll"
    /\ cPc' = [cPc EXCEPT ![c] = "wait"]
    /\ cPolling' = [cPolling EXCEPT ![c] = TRUE]
    /\ UNCHANGED << hsBox, hsExists, declareCalled, abandonCalled, cPushed,
                    cRes, cPair, lPc, lFrom, lRes, lPair, strayed,
                    declareFailed, lTook, cNil, hsFaulted >>

\* ConnectPipe, lines 416-418: a nil result ends the call instead of polling
\* again.
AfterNilStop == "done"

\* ConnectPipe, lines 416-418: on a nil result the loop goes round to LongPoll.
AfterNil == "poll"

\* ConnectPipe, lines 411-434: the LongPoll returns. An error is returned; on
\* nil the loop polls again; a delivery is acked, and it is a pipe/setup
\* (the endpoint is returned) or not (ownM is abandoned, EProtocolError).
ConnectPollReturn(c) ==
    /\ cPc[c] = "wait"
    /\ \E o \in HsLongPollOutcomes(ConnName(c)) :
          IF Failed(o)
          THEN /\ Count(o)
               /\ cRes' = [cRes EXCEPT ![c] = "err"]
               /\ cPc' = [cPc EXCEPT ![c] = "done"]
               /\ UNCHANGED << hsBox, hsExists, abandonCalled, cPair, cNil >>
          ELSE IF o = "nil"
          THEN /\ cPc' = [cPc EXCEPT ![c] = AfterNil]
               /\ cNil' = TRUE
               /\ UNCHANGED << hsBox, hsExists, abandonCalled, cRes, cPair,
                               hsFaulted >>
          ELSE LET msg == Head(hsBox[ConnName(c)]) IN
               /\ hsBox' = [hsBox EXCEPT ![ConnName(c)] = Tail(@)]
               /\ cPc' = [cPc EXCEPT ![c] = "done"]
               /\ UNCHANGED cNil
               /\ \E a \in HsAckOutcomes :
                     /\ Count(a)
                     /\ IF Failed(a)
                        THEN /\ cRes' = [cRes EXCEPT ![c] = "err"]
                             /\ UNCHANGED << hsExists, abandonCalled, cPair >>
                        ELSE IF msg.Type # "pipe/setup"
                        THEN /\ hsExists' = Abandoned(hsExists, ConnName(c))
                             /\ abandonCalled' =
                                    [abandonCalled EXCEPT ![ConnName(c)] = TRUE]
                             /\ cRes' = [cRes EXCEPT ![c] = "proto"]
                             /\ UNCHANGED cPair
                        ELSE /\ cRes' = [cRes EXCEPT ![c] = "ok"]
                             /\ cPair' = [cPair EXCEPT ![c] = msg.ReplyTo]
                             /\ UNCHANGED << hsExists, abandonCalled >>
    /\ UNCHANGED << declareCalled, cPushed, cPolling, lPc, lFrom, lRes, lPair,
                    strayed, declareFailed, lTook >>

\* ListenPipe, lines 347-351: declare the rendezvous queue.
ListenDeclare(l) ==
    /\ lPc[l] = "start"
    /\ \E o \in HsDeclareOutcomes :
          /\ Count(o)
          /\ IF Failed(o)
             THEN /\ lRes' = [lRes EXCEPT ![l] = "err"]
                  /\ lPc' = [lPc EXCEPT ![l] = "done"]
                  /\ UNCHANGED hsExists
             ELSE /\ hsExists' = [hsExists EXCEPT ![Rendezvous] = TRUE]
                  /\ lPc' = [lPc EXCEPT ![l] = "poll"]
                  /\ UNCHANGED lRes
    /\ UNCHANGED << hsBox, declareCalled, abandonCalled, cPc, cPushed, cPolling,
                    cRes, cPair, lFrom, lPair, strayed, declareFailed, lTook,
                    cNil >>

\* ListenPipe without the test of lines 368-370: any delivery is taken for a
\* pipe/initconnect.
ListenTypeAny(msg) == TRUE

\* ListenPipe, lines 368-370: the Type the listener goes on with
ListenTypeOk(msg) == msg.Type = "pipe/initconnect"

\* ListenPipe, lines 353-370: long-poll the rendezvous queue until a delivery
\* or an error comes, ack the delivery and check its Type.
ListenPoll(l) ==
    /\ lPc[l] = "poll"
    /\ \E o \in HsLongPollOutcomes(Rendezvous) \ {"nil"} :
          IF Failed(o)
          THEN /\ Count(o)
               /\ lRes' = [lRes EXCEPT ![l] = "err"]
               /\ lPc' = [lPc EXCEPT ![l] = "done"]
               /\ UNCHANGED << hsBox, lFrom, lTook >>
          ELSE LET msg == Head(hsBox[Rendezvous]) IN
               /\ hsBox' = [hsBox EXCEPT ![Rendezvous] = Tail(@)]
               /\ \E a \in HsAckOutcomes :
                     /\ Count(a)
                     /\ lTook' = [lTook EXCEPT ![l] =
                            [Type |-> msg.Type,
                             ack |-> IF Failed(a) THEN "err" ELSE "ok"]]
                     /\ IF Failed(a)
                        THEN /\ lRes' = [lRes EXCEPT ![l] = "err"]
                             /\ lPc' = [lPc EXCEPT ![l] = "done"]
                             /\ UNCHANGED lFrom
                        ELSE IF ~ListenTypeOk(msg)
                        THEN /\ lRes' = [lRes EXCEPT ![l] = "proto"]
                             /\ lPc' = [lPc EXCEPT ![l] = "done"]
                             /\ UNCHANGED lFrom
                        ELSE /\ lFrom' = [lFrom EXCEPT ![l] = msg.ReplyTo]
                             /\ lPc' = [lPc EXCEPT ![l] = "setup"]
                             /\ UNCHANGED lRes
    /\ UNCHANGED << hsExists, declareCalled, abandonCalled, cPc, cPushed,
                    cPolling, cRes, cPair, lPair, strayed, declareFailed, cNil >>

\* The pipe/setup the listener sends: its ReplyTo is the listener's ownM.
SetupFromConnector(l) == Setup(lFrom[l])

SetupOf(l) == Setup(ListName(l))

\* ListenPipe, lines 372-389: ownM := RandomQueue(); EphemeralDeclare(ownM), its
\* error dropped; push pipe/setup to the connector's ReplyTo; on an error
\* abandon ownM and return the error, else return the endpoint. (No other
\* client knows ownM before the push, so the two calls are one step.)
ListenPush(l) ==
    /\ lPc[l] = "setup"
    /\ lPc' = [lPc EXCEPT ![l] = "done"]
    /\ declareCalled' = [declareCalled EXCEPT ![ListName(l)] = TRUE]
    /\ \E d \in HsDeclareOutcomes :
       \E o \in IF d = "fault" THEN HsPushOutcomes(lFrom[l]) \ {"fault"}
                 ELSE HsPushOutcomes(lFrom[l]) :
          /\ Count(IF d = "fault" THEN d ELSE o)
          /\ declareFailed' = [declareFailed EXCEPT ![ListName(l)] = Failed(d)]
          /\ IF Failed(o)
             THEN /\ hsExists' = Abandoned(hsExists, ListName(l))
                  /\ abandonCalled' = [abandonCalled EXCEPT ![ListName(l)] = TRUE]
                  /\ lRes' = [lRes EXCEPT ![l] = "err"]
                  /\ UNCHANGED << hsBox, lPair >>
             ELSE /\ hsExists' = [hsExists EXCEPT ![ListName(l)] = (d = "ok")]
                  /\ hsBox' = [hsBox EXCEPT ![lFrom[l]] = Append(@, SetupOf(l))]
                  /\ lRes' = [lRes EXCEPT ![l] = "ok"]
                  /\ lPair' = [lPair EXCEPT ![l] = lFrom[l]]
                  /\ UNCHANGED abandonCalled
    /\ UNCHANGED << cPc, cPushed, cPolling, cRes, cPair, lFrom, strayed, lTook,
                    cNil >>

\* Some other client pushes a wrongly typed message to the rendezvous queue.
StrayPush ==
    /\ ~strayed
    /\ hsExists[Rendezvous]
    /\ strayed' = TRUE
    /\ hsBox' = [hsBox EXCEPT ![Rendezvous] = Append(@, Bogus)]
    /\ UNCHANGED << hsExists, declareCalled, abandonCalled, cPc, cPushed,
                    cPolling, cRes, cPair, lPc, lFrom, lRes, lPair,
                    declareFailed, lTook, cNil, hsFaulted >>

NextHandshake ==
    \/ \E c \in Conns : ConnectDeclare(c) /\ HandshakeOnly
    \/ \E c \in Conns : ConnectPush(c) /\ HandshakeOnly
    \/ \E c \in Conns : ConnectPollStart(c) /\ HandshakeOnly
    \/ \E c \in Conns : ConnectPollReturn(c) /\ HandshakeOnly
    \/ \E l \in Lists : ListenDeclare(l) /\ HandshakeOnly
    \/ \E l \in Lists : ListenPoll(l) /\ HandshakeOnly
    \/ \E l \in Lists : ListenPush(l) /\ HandshakeOnly
    \/ StrayPush /\ HandshakeOnly

\* The handshake over a transport that returns no error of its own: no fault
\* is injected into a call.
Reliable == hsFaulted' = FALSE

\* the steps of the ConnectPipe call c, and of the ListenPipe call l
ConnectStep(c) ==
    /\ \/ ConnectDeclare(c)
       \/ ConnectPush(c)
       \/ ConnectPollStart(c)
       \/ ConnectPollReturn(c)
    /\ Reliable
    /\ HandshakeOnly

ListenStep(l) ==
    /\ \/ ListenDeclare(l)
       \/ ListenPoll(l)
       \/ ListenPush(l)
    /\ Reliable
    /\ HandshakeOnly

NextHandshakeReliable ==
    \/ \E c \in Conns : ConnectDeclare(c) /\ Reliable /\ HandshakeOnly
    \/ \E c \in Conns : ConnectPush(c) /\ Reliable /\ HandshakeOnly
    \/ \E c \in Conns : ConnectPollStart(c) /\ Reliable /\ HandshakeOnly
    \/ \E c \in Conns : ConnectPollReturn(c) /\ Reliable /\ HandshakeOnly
    \/ \E l \in Lists : ListenDeclare(l) /\ Reliable /\ HandshakeOnly
    \/ \E l \in Lists : ListenPoll(l) /\ Reliable /\ HandshakeOnly
    \/ \E l \in Lists : ListenPush(l) /\ Reliable /\ HandshakeOnly

\* ------------------------------------------------------ Receive / Receiver
\* Receive has returned: the channels are made and the pump goroutine started.
InitReceiver ==
    /\ rq = << >>
    /\ rPushed = 0
    /\ pumpPc = "select"
    /\ pumpMsg = 0
    /\ shutdown = FALSE
    /\ chanClosed = FALSE
    /\ receiving = TRUE
    /\ delivered = << >>
    /\ taken = {}
    /\ pushedAtClose = -1
    /\ recError = "nil"
    /\ closedBy = "none"
    /\ recFaulted = FALSE

\* lines 158-165: the select. With rec.shutdown closed its case is ready and
\* is taken: close(c) and return. Else the default case issues the LongPoll.
PumpSelect ==
    /\ pumpPc = "select"
    /\ IF shutdown
       THEN /\ chanClosed' = TRUE
            /\ closedBy' = "shutdown"
            /\ pumpPc' = "exited"
       ELSE /\ pumpPc' = "longpoll"
            /\ UNCHANGED << chanClosed, closedBy >>
    /\ UNCHANGED << rq, rPushed, pumpMsg, shutdown, receiving, delivered, taken,
                    pushedAtClose, recError, recFaulted >>

\* lines 166-169: what the error branch leaves in rec.Error: the branch closes
\* the channel and returns, rec.Error is not assigned.
ErrorSlot(old, err) == old

\* lines 165-173: the LongPoll returns: an error (close(c), return), nil (the
\* loop goes round) or a delivery (on to the send).
PumpLongPoll ==
    /\ pumpPc = "longpoll"
    /\ \E o \in LongPollOutcomes(TRUE, rq, recFaulted) :
          /\ recFaulted' = (recFaulted \/ o = "fault")
          /\ IF Failed(o)
             THEN /\ chanClosed' = TRUE
                  /\ closedBy' = "error"
                  /\ recError' = ErrorSlot(recError, "err")
                  /\ pumpPc' = "exited"
                  /\ UNCHANGED << rq, pumpMsg, taken >>
             ELSE IF o = "nil"
             THEN /\ pumpPc' = "select"
                  /\ UNCHANGED << rq, pumpMsg, taken, chanClosed, closedBy,
                                  recError >>
             ELSE /\ pumpMsg' = Head(rq)
                  /\ rq' = Tail(rq)
                  /\ taken' = taken \cup {Head(rq)}
                  /\ pumpPc' = "send"
                  /\ UNCHANGED << chanClosed, closedBy, recError >>
    /\ UNCHANGED << rPushed, shutdown, receiving, delivered, pushedAtClose >>

\* line 175: c <- msg on the unbuffered channel: it completes when the
\* consumer receives.
PumpSend ==
    /\ pumpPc = "send"
    /\ receiving
    /\ delivered' = Append(delivered, pumpMsg)
    /\ pumpMsg' = 0
    /\ pumpPc' = "select"
    /\ UNCHANGED << rq, rPushed, shutdown, chanClosed, receiving, taken,
                    pushedAtClose, recError, closedBy, recFaulted >>

\* Receiver.Close, lines 146-149 (called once: a second close(rec.shutdown)
\* would panic).
ReceiverClose ==
    /\ ~shutdown
    /\ shutdown' = TRUE
    /\ pushedAtClose' = rPushed
    /\ UNCHANGED << rq, rPushed, pumpPc, pumpMsg, chanClosed, receiving,
                    delivered, taken, recError, closedBy, recFaulted >>

\* The consumer stops receiving from the channel, for good.
ConsumerStop ==
    /\ receiving
    /\ receiving' = FALSE
    /\ UNCHANGED << rq, rPushed, pumpPc, pumpMsg, shutdown, chanClosed,
                    delivered, taken, pushedAtClose, recError, closedBy,
                    recFaulted >>

\* Some client pushes a message to the queue.
ProducerPush ==
    /\ rPushed < MaxMsgs
    /\ rPushed' = rPushed + 1
    /\ rq' = Append(rq, rPushed + 1)
    /\ UNCHANGED << pumpPc, pumpMsg, shutdown, chanClosed, receiving,
                    delivered, taken, pushedAtClose, recError, closedBy,
                    recFaulted >>

PumpSelectStep == PumpSelect /\ ReceiverOnly
PumpLongPollStep == PumpLongPoll /\ ReceiverOnly
PumpSendStep == PumpSend /\ ReceiverOnly

NextReceiver ==
    \/ PumpSelectStep
    \/ PumpLongPollStep
    \/ PumpSendStep
    \/ ReceiverClose /\ ReceiverOnly
    \/ ConsumerStop /\ ReceiverOnly
    \/ ProducerPush /\ ReceiverOnly

\* ---------------------------------------------------------- HandleRequests
Clients == {1, 2}

\* hFail while no Ack and no reply Push has failed
NoFail == [op |-> "none", at |-> 0]

InitHandler ==
    /\ svcQ = << >>
    /\ reqPushed = 0
    /\ hPc = "poll"
    /\ hDel = 0
    /\ nPolled = 0
    /\ nHandled = 0
    /\ nAcked = 0
    /\ nReplied = 0
    /\ replies = << >>
    /\ hRet = "none"
    /\ hPollErr = FALSE
    /\ hFail = NoFail
    /\ hFaulted = FALSE

\* The statements of the loop body past the nil test, in the order they stand
\* in the code: h.HandleMessage(msg); del.Ack(); fc.Push(msg.ReplyTo, ret).
ReplyBeforeAck == << "handle", "push", "ack" >>

HandlerOrder == << "handle", "ack", "push" >>

\* the statement after statement st; past the last one the loop polls again
After(st) ==
    LET i == CHOOSE j \in DOMAIN HandlerOrder : HandlerOrder[j] = st
    IN IF i < Len(HandlerOrder) THEN HandlerOrder[i + 1] ELSE "poll"

\* line 108 with the result of del.Ack() read and returned
AckErrorReturned == TRUE

\* line 108: the result of del.Ack() is not read
AckErrorEnds == FALSE

\* lines 95-102: LongPoll returns an error (HandleRequests returns it), nil
\* (poll again: nothing changes) or a delivery.
HandlerPoll ==
    /\ hPc = "poll"
    /\ \E o \in LongPollOutcomes(TRUE, svcQ, hFaulted) :
          /\ hFaulted' = (hFaulted \/ o = "fault")
          /\ IF Failed(o)
             THEN /\ hPc' = "returned"
                  /\ hRet' = "err"
                  /\ hPollErr' = TRUE
                  /\ UNCHANGED << svcQ, hDel, nPolled >>
             ELSE IF o = "nil"
             THEN UNCHANGED << hPc, hRet, hPollErr, svcQ, hDel, nPolled >>
             ELSE /\ hDel' = Head(svcQ)
                  /\ svcQ' = Tail(svcQ)
                  /\ nPolled' = nPolled + 1
                  /\ hPc' = HandlerOrder[1]
                  /\ UNCHANGED << hRet, hPollErr >>
    /\ UNCHANGED << reqPushed, nHandled, nAcked, nReplied, replies, hFail >>

\* lines 104-106: the handler is called and returns the reply
HandlerCall ==
    /\ hPc = "handle"
    /\ nHandled' = nHandled + 1
    /\ hPc' = After("handle")
    /\ UNCHANGED << svcQ, reqPushed, hDel, nPolled, nAcked, nReplied, replies,
                    hRet, hPollErr, hFail, hFaulted >>

\* line 108: del.Ack(), its error dropped
HandlerAck ==
    /\ hPc = "ack"
    /\ \E o \in CallOutcomes(hFaulted) :
          /\ hFaulted' = (hFaulted \/ o = "fault")
          /\ hFail' = IF Failed(o) THEN [op |-> "ack", at |-> nPolled]
                      ELSE hFail
          /\ IF Failed(o) /\ AckErrorEnds
             THEN hPc' = "returned" /\ hRet' = "err"
             ELSE hPc' = After("ack") /\ UNCHANGED hRet
    /\ nAcked' = nAcked + 1
    /\ UNCHANGED << svcQ, reqPushed, hDel, nPolled, nHandled, nReplied, replies,
                    hPollErr >>

\* line 110: fc.Push(msg.ReplyTo, ret), its error dropped
HandlerReply ==
    /\ hPc = "push"
    /\ \E o \in PushOutcomes(TRUE, hFaulted) :
          /\ hFaulted' = (hFaulted \/ o = "fault")
          /\ replies' = IF o = "ok" THEN Append(replies, hDel) ELSE replies
          /\ hFail' = IF Failed(o) THEN [op |-> "push", at |-> nPolled]
                      ELSE hFail
    /\ nReplied' = nReplied + 1
    /\ hPc' = After("push")
    /\ UNCHANGED << svcQ, reqPushed, hDel, nPolled, nHandled, nAcked, hRet,
                    hPollErr >>

\* A client pushes a request, its ReplyTo naming the client's reply queue.
ClientPush(cl) ==
    /\ reqPushed < MaxReqs
    /\ reqPushed' = reqPushed + 1
    /\ svcQ' = Append(svcQ, [id |-> reqPushed + 1, ReplyTo |-> cl])
    /\ UNCHANGED << hPc, hDel, nPolled, nHandled, nAcked, nReplied, replies,
                    hRet, hPollErr, hFail, hFaulted >>

NextHandler ==
    \/ HandlerPoll /\ HandlerOnly
    \/ HandlerCall /\ HandlerOnly
    \/ HandlerAck /\ HandlerOnly
    \/ HandlerReply /\ HandlerOnly
    \/ \E cl \in Clients : ClientPush(cl) /\ HandlerOnly

\* --------------------------------------------------------------- LocalQueue
Callers == 1..MaxCallers

\* the empty string
NoName == 0
\* the names RandomQueue can hand out: one for every call
RandomNames == 1..(MaxCallers * MaxCalls)

InitLocalQueue ==
    /\ localQueue = NoName
    /\ lock = 0
    /\ lqPc = [k \in Callers |-> "idle"]
    /\ lqR = [k \in Callers |-> NoName]
    /\ lqCalls = [k \in Callers |-> 0]
    /\ lqLast = [k \in Callers |-> "none"]
    /\ randomNext = 0
    /\ declared = [n \in RandomNames |-> 0]
    /\ lqReturned = {}
    /\ lqAssigned = {}
    /\ lqFaulted = FALSE

\* fc.lock.Lock() goes through whatever the lock's state
LockIgnored == TRUE

\* fc.lock.Lock() goes through when no goroutine holds the lock
LockFree == lock = 0

\* line 64: a call begins and takes the lock
LqLock(k) ==
    /\ lqPc[k] = "idle"
    /\ lqCalls[k] < MaxCalls
    /\ LockFree
    /\ lock' = k
    /\ lqCalls' = [lqCalls EXCEPT ![k] = @ + 1]
    /\ lqPc' = [lqPc EXCEPT ![k] = "check"]
    /\ UNCHANGED << localQueue, lqR, lqLast, randomNext, declared, lqReturned,
                    lqAssigned, lqFaulted >>

\* lines 67-69: the cached name, when there is one, is what the call returns
LqCheck(k) ==
    /\ lqPc[k] = "check"
    /\ IF localQueue # NoName
       THEN /\ lqR' = [lqR EXCEPT ![k] = localQueue]
            /\ lqPc' = [lqPc EXCEPT ![k] = "return"]
       ELSE /\ lqPc' = [lqPc EXCEPT ![k] = "declare"]
            /\ UNCHANGED lqR
    /\ UNCHANGED << localQueue, lock, lqCalls, lqLast, randomNext, declared,
                    lqReturned, lqAssigned, lqFaulted >>

\* lines 71-76: r := RandomQueue(); EphemeralDeclare(r); on an error the call
\* panics, and the deferred Unlock releases the lock
LqDeclare(k) ==
    /\ lqPc[k] = "declare"
    /\ randomNext' = randomNext + 1
    /\ declared' = [declared EXCEPT ![randomNext + 1] = @ + 1]
    /\ \E o \in CallOutcomes(lqFaulted) :
          /\ lqFaulted' = (lqFaulted \/ o = "fault")
          /\ IF Failed(o)
             THEN /\ lock' = 0
                  /\ lqPc' = [lqPc EXCEPT ![k] = "idle"]
                  /\ lqLast' = [lqLast EXCEPT ![k] = "panic"]
                  /\ UNCHANGED lqR
             ELSE /\ lqR' = [lqR EXCEPT ![k] = randomNext + 1]
                  /\ lqPc' = [lqPc EXCEPT ![k] = "assign"]
                  /\ UNCHANGED << lock, lqLast >>
    /\ UNCHANGED << localQueue, lqCalls, lqReturned, lqAssigned >>

\* line 78: fc.localQueue = r
LqAssign(k) ==
    /\ lqPc[k] = "assign"
    /\ localQueue' = lqR[k]
    /\ lqAssigned' = lqAssigned \cup {lqR[k]}
    /\ lqPc' = [lqPc EXCEPT ![k] = "return"]
    /\ UNCHANGED << lock, lqR, lqCalls, lqLast, randomNext, declared,
                    lqReturned, lqFaulted >>

\* lines 68 and 80, with the deferred Unlock: the call returns its name
LqReturn(k) ==
    /\ lqPc[k] = "return"
    /\ lock' = 0
    /\ lqReturned' = lqReturned \cup {lqR[k]}
    /\ lqLast' = [lqLast EXCEPT ![k] = "returned"]
    /\ lqPc' = [lqPc EXCEPT ![k] = "idle"]
    /\ UNCHANGED << localQueue, lqR, lqCalls, randomNext, declared,
                    lqAssigned, lqFaulted >>

NextLocalQueue ==
    \/ \E k \in Callers : LqLock(k) /\ LocalQueueOnly
    \/ \E k \in Callers : LqCheck(k) /\ LocalQueueOnly
    \/ \E k \in Callers : LqDeclare(k) /\ LocalQueueOnly
    \/ \E k \in Callers : LqAssign(k) /\ LocalQueueOnly
    \/ \E k \in Callers : LqReturn(k) /\ LocalQueueOnly

\* ------------------------------------------------------------------ Request
RequestCalls == 1..MaxRequests

\* the client's LocalQueue name, which Request writes into msg.ReplyTo
LocalName == "local"

InitRequest ==
    /\ reqBox = << >>
    /\ replyBox = << >>
    /\ reqPc = "idle"
    /\ reqCall = 0
    /\ reqResult = [k \in RequestCalls |-> [err |-> "none", answers |-> 0]]
    /\ reqFaulted = FALSE

\* lines 115-120: msg.ReplyTo = fc.LocalQueue(); Push(name, msg); a failed push
\* is returned. The k-th call's message carries k.
RequestPush ==
    /\ reqPc = "idle"
    /\ reqCall < MaxRequests
    /\ reqCall' = reqCall + 1
    /\ \E o \in PushOutcomes(TRUE, reqFaulted) :
          /\ reqFaulted' = (reqFaulted \/ o = "fault")
          /\ IF Failed(o)
             THEN /\ reqResult' = [reqResult EXCEPT ![reqCall + 1] =
                                       [err |-> "err", answers |-> 0]]
                  /\ UNCHANGED << reqBox, reqPc >>
             ELSE /\ reqBox' = Append(reqBox, [id |-> reqCall + 1,
                                               ReplyTo |-> LocalName])
                  /\ reqPc' = "poll"
                  /\ UNCHANGED reqResult
    /\ UNCHANGED replyBox

\* lines 122-133: LongPoll(msg.ReplyTo): an error is returned, nil polls again
\* (nothing changes), a delivery is returned as it is.
RequestLongPoll ==
    /\ reqPc = "poll"
    /\ \E o \in LongPollOutcomes(TRUE, replyBox, reqFaulted) \ {"nil"} :
          /\ reqFaulted' = (reqFaulted \/ o = "fault")
          /\ IF Failed(o)
             THEN /\ reqResult' = [reqResult EXCEPT ![reqCall] =
                                       [err |-> "err", answers |-> 0]]
                  /\ UNCHANGED replyBox
             ELSE /\ reqResult' = [reqResult EXCEPT ![reqCall] =
                                       [err |-> "nil",
                                        answers |-> Head(replyBox).answers]]
                  /\ replyBox' = Tail(replyBox)
    /\ reqPc' = "idle"
    /\ UNCHANGED << reqBox, reqCall >>

\* One round of the HandleRequests loop serving the queue: it takes the oldest
\* request and pushes the handler's reply to the request's ReplyTo; a failed
\* reply push is dropped.
ServeRequest ==
    /\ reqBox # << >>
    /\ reqBox' = Tail(reqBox)
    /\ \E o \in PushOutcomes(Head(reqBox).ReplyTo = LocalName, reqFaulted) :
          /\ reqFaulted' = (reqFaulted \/ o = "fault")
          /\ replyBox' = IF o = "ok"
                         THEN Append(replyBox, [answers |-> Head(reqBox).id])
                         ELSE replyBox
    /\ UNCHANGED << reqPc, reqCall, reqResult >>

NextRequest ==
    \/ RequestPush /\ RequestOnly
    \/ RequestLongPoll /\ RequestOnly
    \/ ServeRequest /\ RequestOnly

Init ==
    /\ InitPipe /\ InitHandshake /\ InitReceiver /\ InitHandler
    /\ InitLocalQueue /\ InitRequest

\* ---------------------------------------------------------------- claims
\* C1: pipe byte conservation. The bytes the reader's Reads returned are at all
\* times a prefix of the bytes the peer wrote, and once a Read has returned
\* end-of-stream they are all the bytes written before the writer's Close.
C1_ByteConservation ==
    \A r \in Readers :
        ~pipeFaulted =>
        /\ IsPrefix(received[r], Bytes(0, nWritten[Peer(r)]))
        /\ lastRead[r].err = "EOF" =>
               received[r] = Bytes(0, writtenAtClose[Peer(r)])

C3_TopUpNothing ==
    \A r \in Readers :
        (lastRead[r].via = "C" /\ lastRead[r].poll \in {"err", "empty"}) =>
            /\ lastRead[r].n = lastRead[r].had
            /\ lastRead[r].err = "nil"
            /\ buffer[r] = Nil

\* c's pipe/initconnect waits in the rendezvous queue
InitQueued(c) ==
    \E i \in DOMAIN hsBox[Rendezvous] :
        hsBox[Rendezvous][i] = InitConnect(ConnName(c))

\* a message (a listener's pipe/setup) waits in c's ownM
SetupQueued(c) == hsBox[ConnName(c)] # << >>

\* C5: handshake pairing. A connector and a listener that both returned an
\* endpoint from one initconnect/setup exchange are bound to each other; every
\* initconnect is taken by one listener only, and no two endpoints returned
\* have the same ownM or the same peer.
C5_HandshakePairing ==
    /\ \A c \in Conns, l \in Lists :
          (cRes[c] = "ok" /\ lRes[l] = "ok" /\ lPair[l] = ConnName(c)) =>
              (cPair[c] = ListName(l) /\ ConnName(c) # ListName(l))
    /\ \A c \in Conns :
          cRes[c] = "ok" =>
              \E l \in Lists : cPair[c] = ListName(l) /\ lFrom[l] = ConnName(c)
    /\ \A l1, l2 \in Lists :
          (l1 # l2 /\ lFrom[l1] # NoQueue) => lFrom[l1] # lFrom[l2]
    /\ \A l1, l2 \in Lists :
          (l1 # l2 /\ lRes[l1] = "ok" /\ lRes[l2] = "ok") => lPair[l1] # lPair[l2]
    /\ \A c1, c2 \in Conns :
          (c1 # c2 /\ cRes[c1] = "ok" /\ cRes[c2] = "ok") => cPair[c1] # cPair[c2]

\* two connectors and two listeners have all returned endpoints
C5_Witness ==
    /\ Cardinality({c \in Conns : cRes[c] = "ok"}) >= 2
    /\ Cardinality({l \in Lists : lRes[l] = "ok"}) >= 2

\* C6 as stated: the connector has declared ownM and begun polling it before
\* it pushes pipe/initconnect, so no pipe/setup is pushed to ownM before the
\* connector has declared it and begun polling it.
C6_PollBeforePush ==
    \A c \in Conns :
        (cPushed[c] \/ SetupQueued(c)) =>
            (declareCalled[ConnName(c)] /\ cPolling[c])

\* C6 as amended: the connector has called EphemeralDeclare(ownM) before it
\* pushes pipe/initconnect, and it begins polling ownM only after the push; no
\* pipe/setup is pushed to ownM before that declare.
C6_DeclareBeforePush ==
    \A c \in Conns :
        /\ (cPushed[c] \/ SetupQueued(c) \/ cPolling[c]) =>
               declareCalled[ConnName(c)]
        /\ cPolling[c] => cPushed[c]

\* a pipe/setup waits in a connector's ownM before the connector has begun
\* polling it
C6_Witness ==
    \E c \in Conns :
        /\ SetupQueued(c) /\ Head(hsBox[ConnName(c)]).Type = "pipe/setup"
        /\ ~cPolling[c] /\ declareCalled[ConnName(c)]

\* C7: Receiver shutdown liveness. After Close the channel is eventually closed
\* and the pump goroutine has exited.
C7_ShutdownLiveness == shutdown ~> (chanClosed /\ pumpPc = "exited")

\* C8: Close comes before any message is pushed; the messages pushed after it
\* are never taken from the broker by this receiver nor sent on its channel.
C8_NotTakenAfterClose ==
    (shutdown /\ pushedAtClose = 0) =>
        (taken = {} /\ pumpMsg = 0 /\ delivered = << >>
            /\ rq = [i \in 1..rPushed |-> i])

\* C9: handler ordering. The k-th Ack comes after the handler returned for the
\* k-th delivery, before the k-th reply push and before the (k+1)-th delivery
\* is polled; the loop holds at most one delivery it has not acked.
C9_HandlerOrdering ==
    /\ nAcked <= nHandled
    /\ nHandled <= nPolled
    /\ nReplied <= nAcked
    /\ nPolled <= nAcked + 1

\* the loop has acked and answered a second delivery and holds a third
C9_Witness == nReplied >= 2 /\ nAcked = nReplied /\ nPolled = nAcked + 1

\* C10: LocalQueue stability. All the LocalQueue calls that return, return one
\* name; that name was passed to EphemeralDeclare exactly once; localQueue is
\* assigned one value only and keeps it.
C10_LocalQueueStable ==
    /\ Cardinality(lqReturned) <= 1
    /\ \A n \in lqReturned : declared[n] = 1 /\ localQueue = n
    /\ Cardinality(lqAssigned) <= 1
    /\ localQueue # NoName => lqAssigned = {localQueue}

\* two goroutines have both had a call return, one of them a second call, after
\* a first EphemeralDeclare failed
C10_Witness ==
    /\ \A k \in {1, 2} : lqLast[k] = "returned"
    /\ \E k \in {1, 2} : lqCalls[k] >= 2
    /\ lqFaulted
    /\ lqReturned # {}

\* C11: single-reply correlation. Every Request call that returned a delivery
\* returned the reply to the message that same call pushed.
C11_SingleReply ==
    \A k \in RequestCalls :
        reqResult[k].err = "nil" => reqResult[k].answers = k

\* the first delivery the listener took is not a pipe/initconnect
WrongType(l) == lTook[l].Type \notin {"none", "pipe/initconnect"}

\* no pipe/setup naming l's mailbox is queued anywhere, and l bound no endpoint
NoSetupFrom(l) ==
    /\ lPair[l] = NoQueue
    /\ \A q \in Queues : \A i \in 1..Len(hsBox[q]) :
           hsBox[q][i] # Setup(ListName(l))

\* C12 as stated: a listener whose first delivery has a wrong Type acks it,
\* returns the protocol-error sentinel, declares no ephemeral mailbox and pushes
\* no pipe/setup.
C12_ListenerProtocolViolation ==
    \A l \in Lists :
        WrongType(l) =>
            /\ lTook[l].ack # "none"
            /\ lRes[l] = "proto"
            /\ ~declareCalled[ListName(l)]
            /\ NoSetupFrom(l)

\* C12, amended: the listener calls Ack on the wrongly typed delivery; when the
\* Ack succeeds it returns the protocol-error sentinel, when the Ack fails it
\* returns that error; either way it returns no endpoint, declares no ephemeral
\* mailbox and pushes no pipe/setup.
C12_ListenerProtocolViolationAcked ==
    \A l \in Lists :
        WrongType(l) =>
            /\ lPc[l] = "done"
            /\ lTook[l].ack \in {"ok", "err"}
            /\ lTook[l].ack = "ok" => lRes[l] = "proto"
            /\ lTook[l].ack = "err" => lRes[l] = "err"
            /\ ~declareCalled[ListName(l)]
            /\ NoSetupFrom(l)

\* a listener took the wrongly typed message, acked it and returned the
\* sentinel, while the other listener went on to a handshake
C12_Witness ==
    \E l, k \in Lists :
        /\ WrongType(l) /\ lTook[l].ack = "ok" /\ lRes[l] = "proto"
        /\ lRes[k] = "ok"

\* C13: resource release on handshake failure. A ConnectPipe or ListenPipe
\* call that returned an error after it declared its ephemeral mailbox has
\* called Abandon on it.
C13_ReleaseOnFailure ==
    /\ \A c \in Conns :
          (cRes[c] \in {"err", "proto"} /\ declareCalled[ConnName(c)]
              /\ ~declareFailed[ConnName(c)])
          => abandonCalled[ConnName(c)]
    /\ \A l \in Lists :
          (lRes[l] \in {"err", "proto"} /\ declareCalled[ListName(l)]
              /\ ~declareFailed[ListName(l)])
          => abandonCalled[ListName(l)]

\* C14: a failed EphemeralDeclare of ownM ends the operation: nothing carrying
\* the undeclared ownM is pushed, no endpoint is returned, and the call returns
\* the error.
C14_DeclareErrorPropagated ==
    /\ \A c \in Conns :
          declareFailed[ConnName(c)] =>
              /\ ~cPushed[c]
              /\ cRes[c] # "ok"
              /\ cPc[c] = "done" => cRes[c] = "err"
    /\ \A l \in Lists :
          declareFailed[ListName(l)] =>
              /\ lRes[l] = "err"
              /\ NoSetupFrom(l)

\* the transport has returned no error and no other client has pushed to the
\* rendezvous queue
NoTransportError ==
    /\ ~hsFaulted /\ ~strayed
    /\ \A c \in Conns : cRes[c] \notin {"err", "proto"}
    /\ \A l \in Lists : lRes[l] \notin {"err", "proto"}

AllEndpoints ==
    /\ \A c \in Conns : cPc[c] = "done" /\ cRes[c] = "ok"
    /\ \A l \in Lists : lPc[l] = "done" /\ lRes[l] = "ok"

C15_StickyEndOfStream ==
    [][\A e \in Endpoints :
          /\ closed[e] => closed'[e]
          /\ lastRead'[e].wasClosed =>
                /\ lastRead'[e].n = 0
                /\ lastRead'[e].err = "EOF"
                /\ lastRead'[e].poll = "none"
          /\ closedWrite'[e] # NoWrite =>
                /\ closedWrite'[e].n = 0
                /\ closedWrite'[e].err = "EOF"
                /\ ~closedWrite'[e].pushed
          /\ (closed[e] /\ ~abandon'[e]) => Len(mbox'[e]) >= Len(mbox[e])
          /\ closed[e] => nWritten'[e] = nWritten[e]]_vars

\* an endpoint that consumed the peer's pipe/close has since made a Read and a
\* Write
C15_Witness ==
    \E e \in Endpoints :
        /\ closed[e] /\ closeTaken[e]
        /\ lastRead[e].wasClosed
        /\ closedWrite[e] # NoWrite

\* C16: Read size contract. Every Read call returns a count between 0 and
\* len(b); it reports end-of-stream only on an endpoint that has consumed a
\* pipe/close.
C16_ReadSizeContract ==
    \A e \in Endpoints :
        lastRead[e].via # "none" =>
            /\ lastRead[e].err \in {"nil", "EOF", "err"}
            /\ ~lastRead[e].over
            /\ lastRead[e].n >= 0
            /\ lastRead[e].err = "EOF" => closeTaken[e]

\* C19: pipe/close is the last message of a direction. An endpoint that has
\* called Close pushes nothing more: its pipe/close is the last message in the
\* peer's mailbox, and its count of written bytes stays as it was.
C19_CloseIsLast ==
    \A e \in Endpoints :
        /\ \A i \in 1..Len(mbox[e]) :
              mbox[e][i] = CloseFrame => i = Len(mbox[e])
        /\ writtenAtClose[e] # -1 => nWritten[e] = writtenAtClose[e]

\* C17: Receiver error slot. When the pump closed the channel because its
\* long-poll returned an error, rec.Error holds that error; when it closed the
\* channel because of Close, rec.Error is nil.
C17_ErrorSlot ==
    chanClosed =>
        /\ closedBy = "error" => recError = "err"
        /\ closedBy = "shutdown" => recError = "nil"

\* C18: HandleRequests returns exactly when a LongPoll returned an error, and
\* returns that error; a failed Ack or a failed reply Push does not end the
\* loop.
C18_OnlyPollErrorEnds ==
    /\ hPc = "returned" <=> hPollErr
    /\ hRet = IF hPollErr THEN "err" ELSE "none"
    /\ (hFail.op # "none" /\ ~hPollErr) =>
           hPc \in {"poll", "handle", "ack", "push"}

\* an Ack or a reply Push has failed and the loop, still running, has since
\* polled and handled a later delivery
C18_Witness ==
    /\ hFail.op \in {"ack", "push"}
    /\ nPolled > hFail.at
    /\ nHandled > hFail.at
    /\ hPc # "returned"

\* C4: Close idempotence. Over all the Close calls on an endpoint, Abandon(ownM)
\* is called at most once and pipe/close is pushed at most once; a Close after
\* the first makes no transport call and returns no error.
C4_CloseIdempotent ==
    \A e \in Endpoints :
        /\ abandonCalls[e] <= 1
        /\ closePushes[e] <= 1
        /\ lastClose[e].call = "later" =>
               (lastClose[e].ops = 0 /\ lastClose[e].err = "nil")
        /\ lastClose[e].call # "none" => (abandonCalls[e] = 1 /\ closePushes[e] = 1)

\* an endpoint was closed and then closed again
C4_Witness ==
    \E e \in Endpoints :
        lastClose[e].call = "later" /\ closePushes[e] = 1 /\ abandonCalls[e] = 1

SpecPipe == Init /\ [][NextPipe]_vars
SpecHandshake == Init /\ [][NextHandshake]_vars
SpecReceiver == Init /\ [][NextReceiver]_vars
SpecHandler == Init /\ [][NextHandler]_vars
SpecLocalQueue == Init /\ [][NextLocalQueue]_vars
SpecRequest == Init /\ [][NextRequest]_vars

\* Every started ConnectPipe and ListenPipe call keeps running: each is a
\* goroutine of its own, and the scheduler lets a runnable goroutine run.
FairSpecHandshake ==
    /\ Init /\ [][NextHandshakeReliable]_vars
    /\ \A c \in Conns : WF_vars(ConnectStep(c))
    /\ \A l \in Lists : WF_vars(ListenStep(l))

\* The pump goroutine runs whenever it can: the select, the return of a
\* long-poll (every long-poll returns within its window) and a send the
\* consumer is ready to receive are not put off for ever. Nothing obliges the
\* caller to close, the consumer to go on receiving or a client to push.
FairSpecReceiver ==
    /\ Init /\ [][NextReceiver]_vars
    /\ WF_vars(PumpSelectStep)
    /\ WF_vars(PumpLongPollStep)
    /\ WF_vars(PumpSendStep)

Next ==
    \/ NextPipe
    \/ NextHandshake
    \/ NextReceiver
    \/ NextHandler
    \/ NextLocalQueue
    \/ NextRequest
Spec == Init /\ [][Next]_vars
====
